---------------------------- MODULE Spec2Model ----------------------------
(***************************************************************************)
(* The reply rendezvous of claude-text-me: the MCP tools ask_user and      *)
(* get_messages, the inbound callback handleUserMessage, the single        *)
(* pending-reply slot with its timer, and the bounded message queue.       *)
(*                                                                         *)
(* The program runs on one JavaScript event loop.  A scheduling turn       *)
(* (a tool call arriving, an HTTP response, a timer callback) runs to      *)
(* completion and the continuations it made ready (microtasks) run before  *)
(* the next turn starts.  The inbound adapter's transport may hand several *)
(* events to the callback within one turn, so handleUserMessage can run    *)
(* while a continuation of ask_user is ready but has not yet run.          *)
(*                                                                         *)
(* Time is in milliseconds.  A timer fires at its deadline: the clock does *)
(* not pass the deadline of an armed timer, but other turns may run at the *)
(* same instant before the timer callback does.                            *)
(***************************************************************************)
EXTENDS Integers, Sequences, FiniteSets, TLC

\* ------------------------------------------------------------------ bounds
MaxCalls == 2          \* ask_user calls in a run of Spec
MaxMsgs == 2           \* inbound texts in a run of Spec
MaxTime == 1           \* seconds up to which the clock advances in 1 s steps
QMaxMsgs == 52         \* inbound texts in a run of SpecQueue
TMaxMsgs == 4          \* inbound texts in a run of SpecTTL
TMaxMinutes == 61      \* minutes up to which the clock advances in a run of SpecTTL
SMaxMinutes == 121     \* minutes up to which the clock advances in a run of SpecSweep
FMaxMsgs == 1          \* inbound texts in a run of FairSpec
EMaxMsgs == 1          \* events passed on to handleUserMessage in a run of SpecInbound
MaxBeyond == 4         \* half seconds by which timeout_seconds goes below 0 and above 300 s

\* ------------------------------------------------------- program constants
MAX_QUEUE_SIZE == 50
DefaultTimeoutSeconds == 180
MaxTimeoutSeconds == 300

Calls == 1..MaxCalls

\* timeout_seconds as the caller gives it, in thousandths of a second
TimeoutInputs == {[given |-> FALSE, ms |-> 0], [given |-> TRUE, ms |-> 2000]}

VARIABLES
    pendingReplyResolve,   \* 0 (null) or the call whose promise the stored resolver settles
    replyTimeout,          \* 0 (null) or the call that armed the stored timer handle
    messageQueue,          \* sequence of [text, timestamp]
    now,                   \* Date.now()
    pc,                    \* per call: "idle", "sending", "waiting", "done"
    timeoutOf,             \* per call: the computed timeout in ms
    promise,               \* per call: the promise ask_user awaits
    timer,                 \* per call: the timer its executor armed
    microtasks,            \* continuations of ask_user ready to run, in order
    result,                \* per call: what ask_user returned
    getResult,             \* what get_messages returned in this turn (NoGet in other turns)
    messages,              \* the copy of the queue get_messages made in this turn
    nextMsg,               \* the next inbound text (texts are numbered in arrival order)
    fate,                  \* per inbound text so far: what handleUserMessage did with it
    settled,               \* per call: the resolve/reject calls that settled its promise
    returned,              \* per call: how many times ask_user returned
    handed,                \* per inbound text so far: how many tool results carried it
    timeout_seconds,       \* per call: the timeout_seconds argument as the caller gave it
    process,               \* the process: where main is, or how it exited
    wsClient,              \* "started", or "null" when the inbound transport is not there
    seen,                  \* per inbound text so far: the event that carried it
    discards,              \* the event the adapter last did not pass on, and why (<<>> if none)
    cancelled,             \* per call: the caller cancelled the request
    sendResult,            \* what send_message or send_rich_message returned in this turn
    sweptFrom              \* <<the queue as cleanupOldMessages found it>> in the turn that ran it

vars == <<pendingReplyResolve, replyTimeout, messageQueue, now, pc, timeoutOf,
          promise, timer, microtasks, result, getResult, messages, nextMsg, fate,
          settled, returned, handed, timeout_seconds, process, wsClient, seen,
          discards, cancelled, sendResult, sweptFrom>>

\* ------------------------------------------------------------ pure helpers
Min(a, b) == IF a < b THEN a ELSE b
Max(a, b) == IF a > b THEN a ELSE b

NoResult == [isError |-> FALSE, prefix |-> "", reply |-> 0, error |-> ""]
NoPromise == [state |-> "none", value |-> 0]
NoTimer == [state |-> "none", deadline |-> 0]

\* a call that has not been made has no argument
NoArg == [given |-> FALSE, ms |-> 0]

\* timeout_seconds from 2 s below zero to 2 s above the maximum, in half seconds
AllTimeoutInputs ==
    {NoArg} \cup {[given |-> TRUE, ms |-> k * 500] :
                    k \in (0 - MaxBeyond)..(2 * MaxTimeoutSeconds + MaxBeyond)}

\* z.number().optional().default(180)
ZodDefault(arg) == IF arg.given THEN arg.ms ELSE DefaultTimeoutSeconds * 1000

\* a timeout without the upper limit
TimeoutNoClamp(arg) ==
    LET ts == ZodDefault(arg)
    IN  IF ts = 0 THEN DefaultTimeoutSeconds * 1000 ELSE ts

\* Math.min(timeout_seconds || 180, 300) * 1000
Timeout(arg) ==
    LET ts == ZodDefault(arg)
    IN  Min(IF ts = 0 THEN DefaultTimeoutSeconds * 1000 ELSE ts, MaxTimeoutSeconds * 1000)

\* setTimeout(cb, delay): the delay the runtime uses (a delay below 1 ms runs as 1 ms)
TimerDelay(delay) == Max(delay, 1)

\* resolve(value) / reject(error) of a promise: only a pending promise settles
PromiseSettle(p, st, v) ==
    IF p.state = "pending" THEN [state |-> st, value |-> v] ELSE p

\* a push that never evicts
QueuePushNoShift(q, entry) == Append(q, entry)

\* a push that puts the entry at the head
QueuePushFront(q, entry) ==
    LET pushed == <<entry>> \o q
    IN  IF Len(pushed) > MAX_QUEUE_SIZE THEN Tail(pushed) ELSE pushed

\* a push that drops the new entry when the queue is full
QueuePushDropNewest(q, entry) ==
    IF Len(q) >= MAX_QUEUE_SIZE THEN q ELSE Append(q, entry)

\* messageQueue.push(entry); if (length > MAX_QUEUE_SIZE) shift()
QueuePush(q, entry) ==
    LET pushed == Append(q, entry)
    IN  IF Len(pushed) > MAX_QUEUE_SIZE THEN Tail(pushed) ELSE pushed

\* the tool result of the reply path
ReplyResult(reply) ==
    [isError |-> FALSE, prefix |-> "User replied: ", reply |-> reply, error |-> ""]
\* the tool result of the catch block
ErrorResult(msg) ==
    [isError |-> TRUE, prefix |-> "Failed to get user reply: ", reply |-> 0, error |-> msg]
TimeoutError == "Timeout waiting for user reply"
SendError == "Failed to send rich message"

\* the tool results of get_messages
\* an empty-queue result that is flagged as an error
EmptyGetResultError == [isError |-> TRUE, head |-> "No pending messages from user.", lines |-> <<>>]
\* a result that lists the newest message first
GetResultNewestFirst(msgs) ==
    [isError |-> FALSE, head |-> "Received message(s) from user via Feishu:",
     lines |-> [i \in 1..Len(msgs) |-> msgs[Len(msgs) + 1 - i].text]]
NoGet == [isError |-> FALSE, head |-> "", lines |-> <<>>]
EmptyGetResult == [isError |-> FALSE, head |-> "No pending messages from user.", lines |-> <<>>]
GetResult(msgs) ==
    [isError |-> FALSE, head |-> "Received message(s) from user via Feishu:",
     lines |-> [i \in 1..Len(msgs) |-> msgs[i].text]]

\* the process serves tool calls: main has connected the server
Running == [state |-> "running", code |-> 0, by |-> ""]

\* an im.message.receive_v1 event of a text message written by the user
UserText == [message_type |-> "text", sender_type |-> "user", content |-> "text"]

\* the tool results of send_message and send_rich_message
NoSend == [isError |-> FALSE, text |-> ""]
SentResult(tool) ==
    [isError |-> FALSE,
     text |-> IF tool = "send_message" THEN "Message sent successfully to user via Feishu."
              ELSE "Rich message sent successfully via Feishu."]
SendFailedResult(tool) ==
    [isError |-> TRUE,
     text |-> IF tool = "send_message" THEN "Failed to send message: " ELSE "Failed to send rich message: "]

\* where the process is before it serves tool calls, and how it ended
Loading == [state |-> "loading", code |-> 0, by |-> ""]
Starting == [state |-> "starting", code |-> 0, by |-> ""]
Connecting == [state |-> "connecting", code |-> 0, by |-> ""]
Exited(code, by) == [state |-> "exited", code |-> code, by |-> by]

Idle == microtasks = <<>>     \* no continuation is ready: a new turn may start

\* -------------------------------------------------------------------- Init
\* the coordinator's variables as the module's top level leaves them
InitCore ==
    /\ pendingReplyResolve = 0
    /\ replyTimeout = 0
    /\ messageQueue = <<>>
    /\ now = 0
    /\ pc = [c \in Calls |-> "idle"]
    /\ timeoutOf = [c \in Calls |-> 0]
    /\ promise = [c \in Calls |-> NoPromise]
    /\ timer = [c \in Calls |-> NoTimer]
    /\ microtasks = <<>>
    /\ result = [c \in Calls |-> NoResult]
    /\ getResult = NoGet
    /\ messages = <<>>
    /\ nextMsg = 1
    /\ fate = <<>>
    /\ settled = [c \in Calls |-> <<>>]
    /\ returned = [c \in Calls |-> 0]
    /\ handed = <<>>
    /\ timeout_seconds = [c \in Calls |-> NoArg]
    /\ seen = <<>>
    /\ discards = <<>>
    /\ cancelled = [c \in Calls |-> FALSE]
    /\ sendResult = NoSend
    /\ sweptFrom = <<>>

\* the server is connected and the inbound transport has started
Init ==
    /\ InitCore
    /\ process = Running
    /\ wsClient = "started"

\* ----------------------------------------------------------------- ask_user
\* the tool is called: the timeout is computed and the prompt is being sent
\* an ask_user that stores its resolver and arms its timer before the prompt is sent
AskUserRegisterFirst(c, arg) ==
    /\ getResult' = NoGet
    /\ messages' = <<>>
    /\ sendResult' = NoSend
    /\ sweptFrom' = <<>>
    /\ UNCHANGED <<process, wsClient, discards, cancelled, seen>>
    /\ timeout_seconds' = [timeout_seconds EXCEPT ![c] = arg]
    /\ Idle
    /\ pc[c] = "idle"
    /\ IF c = 1 THEN TRUE ELSE pc[c - 1] # "idle"
    /\ timeoutOf' = [timeoutOf EXCEPT ![c] = Timeout(arg)]
    /\ pc' = [pc EXCEPT ![c] = "sending"]
    /\ pendingReplyResolve' = c
    /\ replyTimeout' = c
    /\ timer' = [timer EXCEPT ![c] =
                    [state |-> "armed", deadline |-> now + TimerDelay(Timeout(arg))]]
    /\ promise' = [promise EXCEPT ![c] = [state |-> "pending", value |-> 0]]
    /\ UNCHANGED <<messageQueue, now, microtasks, result, nextMsg, fate, settled,
                   returned, handed>>

AskUser(c, arg) ==
    /\ getResult' = NoGet
    /\ messages' = <<>>
    /\ sendResult' = NoSend
    /\ sweptFrom' = <<>>
    /\ UNCHANGED <<process, wsClient, discards, cancelled, seen>>
    /\ timeout_seconds' = [timeout_seconds EXCEPT ![c] = arg]
    /\ Idle
    /\ pc[c] = "idle"
    /\ IF c = 1 THEN TRUE ELSE pc[c - 1] # "idle"    \* calls are numbered in order
    /\ timeoutOf' = [timeoutOf EXCEPT ![c] = Timeout(arg)]
    /\ pc' = [pc EXCEPT ![c] = "sending"]
    /\ UNCHANGED <<pendingReplyResolve, replyTimeout, messageQueue, now, promise,
                   timer, microtasks, result, nextMsg, fate, settled,
                   returned, handed>>

\* an executor that stores the resolver and arms no timer
RegisterNoTimer(c) ==
    /\ pendingReplyResolve' = c
    /\ replyTimeout' = c
    /\ timer' = timer
    /\ promise' = [promise EXCEPT ![c] = [state |-> "pending", value |-> 0]]

\* an executor that keeps the resolver of an earlier wait that is still pending
RegisterKeepFirst(c) ==
    /\ pendingReplyResolve' = IF pendingReplyResolve # 0 THEN pendingReplyResolve ELSE c
    /\ replyTimeout' = c
    /\ timer' = [timer EXCEPT ![c] =
                    [state |-> "armed", deadline |-> now + TimerDelay(timeoutOf[c])]]
    /\ promise' = [promise EXCEPT ![c] = [state |-> "pending", value |-> 0]]

\* the executor of new Promise: store the resolver, arm the timer
Register(c) ==
    /\ pendingReplyResolve' = c
    /\ replyTimeout' = c
    /\ timer' = [timer EXCEPT ![c] =
                    [state |-> "armed", deadline |-> now + TimerDelay(timeoutOf[c])]]
    /\ promise' = [promise EXCEPT ![c] = [state |-> "pending", value |-> 0]]

\* a registration that takes the oldest queued text as the reply at once
SendOkRetroactive(c) ==
    /\ getResult' = NoGet
    /\ messages' = <<>>
    /\ sendResult' = NoSend
    /\ sweptFrom' = <<>>
    /\ UNCHANGED <<timeout_seconds, process, wsClient, discards, cancelled, seen>>
    /\ Idle
    /\ pc[c] = "sending"
    /\ pendingReplyResolve' = c
    /\ replyTimeout' = c
    /\ timer' = [timer EXCEPT ![c] =
                    [state |-> "armed", deadline |-> now + TimerDelay(timeoutOf[c])]]
    /\ IF messageQueue # <<>>
       THEN /\ promise' = [promise EXCEPT ![c] =
                              [state |-> "fulfilled", value |-> Head(messageQueue).text]]
            /\ microtasks' = Append(microtasks, c)
            /\ messageQueue' = Tail(messageQueue)
            /\ settled' = [settled EXCEPT ![c] =
                              Append(@, [by |-> "route", text |-> Head(messageQueue).text])]
       ELSE /\ promise' = [promise EXCEPT ![c] = [state |-> "pending", value |-> 0]]
            /\ UNCHANGED <<messageQueue, microtasks, settled>>
    /\ pc' = [pc EXCEPT ![c] = "waiting"]
    /\ UNCHANGED <<now, timeoutOf, result, nextMsg, fate, returned, handed>>

\* provider.sendRichMessage resolved: the wait is registered and the call suspends
SendOk(c) ==
    /\ getResult' = NoGet
    /\ messages' = <<>>
    /\ sendResult' = NoSend
    /\ sweptFrom' = <<>>
    /\ UNCHANGED <<timeout_seconds, process, wsClient, discards, cancelled, seen>>
    /\ Idle
    /\ pc[c] = "sending"
    /\ Register(c)
    /\ pc' = [pc EXCEPT ![c] = "waiting"]
    /\ UNCHANGED <<messageQueue, now, timeoutOf, microtasks, result, nextMsg, fate, settled, returned, handed>>

\* provider.sendRichMessage threw: the catch block returns an error result
SendFail(c) ==
    /\ getResult' = NoGet
    /\ messages' = <<>>
    /\ sendResult' = NoSend
    /\ sweptFrom' = <<>>
    /\ UNCHANGED <<timeout_seconds, process, wsClient, discards, cancelled, seen>>
    /\ Idle
    /\ pc[c] = "sending"
    /\ result' = [result EXCEPT ![c] = ErrorResult(SendError)]
    /\ returned' = [returned EXCEPT ![c] = @ + 1]
    /\ pc' = [pc EXCEPT ![c] = "done"]
    /\ UNCHANGED <<pendingReplyResolve, replyTimeout, messageQueue, now, timeoutOf,
                   promise, timer, microtasks, nextMsg, fate, settled, handed>>

\* a timer callback that rejects and leaves the resolver in the slot
TimerCallbackNoClear(c) ==
    /\ UNCHANGED pendingReplyResolve
    /\ promise' = [promise EXCEPT ![c] = PromiseSettle(@, "rejected", 0)]
    /\ microtasks' = IF promise[c].state = "pending" THEN Append(microtasks, c)
                     ELSE microtasks
    /\ settled' = IF promise[c].state = "pending"
                  THEN [settled EXCEPT ![c] = Append(@, [by |-> "timer", text |-> 0])]
                  ELSE settled

\* a timer callback that clears the slot and forgets to reject
TimerCallbackNoReject(c) ==
    /\ pendingReplyResolve' = 0
    /\ UNCHANGED <<promise, microtasks, settled>>

\* the timer callback of call c
TimerCallback(c) ==
    /\ pendingReplyResolve' = 0
    /\ promise' = [promise EXCEPT ![c] = PromiseSettle(@, "rejected", 0)]
    /\ microtasks' = IF promise[c].state = "pending" THEN Append(microtasks, c)
                     ELSE microtasks
    /\ settled' = IF promise[c].state = "pending"
                  THEN [settled EXCEPT ![c] = Append(@, [by |-> "timer", text |-> 0])]
                  ELSE settled

\* the timer of call c expires
TimerFire(c) ==
    /\ getResult' = NoGet
    /\ messages' = <<>>
    /\ sendResult' = NoSend
    /\ sweptFrom' = <<>>
    /\ UNCHANGED <<timeout_seconds, process, wsClient, discards, cancelled, seen>>
    /\ Idle
    /\ timer[c].state = "armed"
    /\ now >= timer[c].deadline
    /\ timer' = [timer EXCEPT ![c].state = "fired"]
    /\ TimerCallback(c)
    /\ UNCHANGED <<replyTimeout, messageQueue, now, pc, timeoutOf, result, nextMsg, fate, returned, handed>>

\* the cleanup after the awaited promise fulfilled
\* a cleanup that leaves the resolver in the slot
CleanupKeepSlot ==
    /\ timer' = IF replyTimeout # 0 /\ timer[replyTimeout].state = "armed"
                THEN [timer EXCEPT ![replyTimeout].state = "cleared"] ELSE timer
    /\ replyTimeout' = 0
    /\ UNCHANGED pendingReplyResolve

Cleanup ==
    /\ timer' = IF replyTimeout # 0 /\ timer[replyTimeout].state = "armed"
                THEN [timer EXCEPT ![replyTimeout].state = "cleared"]
                ELSE timer
    /\ replyTimeout' = 0
    /\ pendingReplyResolve' = 0

\* ask_user resumes after its promise settled: reply path or catch block
Resume(c) ==
    /\ getResult' = NoGet
    /\ messages' = <<>>
    /\ sendResult' = NoSend
    /\ sweptFrom' = <<>>
    /\ UNCHANGED <<timeout_seconds, process, wsClient, discards, cancelled, seen>>
    /\ microtasks # <<>>
    /\ Head(microtasks) = c
    /\ microtasks' = Tail(microtasks)
    /\ pc' = [pc EXCEPT ![c] = "done"]
    /\ returned' = [returned EXCEPT ![c] = @ + 1]
    /\ IF promise[c].state = "fulfilled"
       THEN /\ Cleanup
            /\ result' = [result EXCEPT ![c] = ReplyResult(promise[c].value)]
            /\ handed' = [handed EXCEPT ![promise[c].value] = @ + 1]
       ELSE /\ result' = [result EXCEPT ![c] = ErrorResult(TimeoutError)]
            /\ UNCHANGED <<pendingReplyResolve, replyTimeout, timer, handed>>
    /\ UNCHANGED <<messageQueue, now, timeoutOf, promise, nextMsg, fate,
                   settled>>

\* -------------------------------------------------------- handleUserMessage
\* the variables of the coordinator and of its calls
coordinatorState == <<pendingReplyResolve, replyTimeout, messageQueue, now, pc, timeoutOf,
                      promise, timer, microtasks, result, nextMsg, fate, settled,
                      returned, handed>>

\* a callback that discards a text that finds no pending resolver
HandleUserMessageDiscard(message) ==
    IF pendingReplyResolve # 0
    THEN LET c == pendingReplyResolve
             wins == promise[c].state = "pending"
         IN  /\ promise' = [promise EXCEPT ![c] = PromiseSettle(@, "fulfilled", message)]
             /\ microtasks' = IF wins THEN Append(microtasks, c) ELSE microtasks
             /\ settled' = IF wins
                           THEN [settled EXCEPT ![c] =
                                    Append(@, [by |-> "route", text |-> message])]
                           ELSE settled
             /\ fate' = Append(fate, [kind |-> IF wins THEN "reply" ELSE "dropped",
                                      to |-> c])
             /\ UNCHANGED messageQueue
    ELSE /\ fate' = Append(fate, [kind |-> "dropped", to |-> 0])
         /\ UNCHANGED <<messageQueue, promise, microtasks, settled>>

HandleUserMessage(message) ==
    IF pendingReplyResolve # 0
    THEN LET c == pendingReplyResolve
             wins == promise[c].state = "pending"
         IN  /\ promise' = [promise EXCEPT ![c] = PromiseSettle(@, "fulfilled", message)]
             /\ microtasks' = IF wins THEN Append(microtasks, c) ELSE microtasks
             /\ settled' = IF wins
                           THEN [settled EXCEPT ![c] =
                                    Append(@, [by |-> "route", text |-> message])]
                           ELSE settled
             /\ fate' = Append(fate, [kind |-> IF wins THEN "reply" ELSE "dropped",
                                      to |-> c])
             /\ UNCHANGED messageQueue
    ELSE /\ messageQueue' = QueuePush(messageQueue, [text |-> message, timestamp |-> now])
         /\ fate' = Append(fate, [kind |-> "queued", to |-> 0])
         /\ UNCHANGED <<promise, microtasks, settled>>

\* the events the transport hands to the im.message.receive_v1 handler: what
\* kind of message, who wrote it, and what JSON.parse(message.content) gives
\* ("text": an object with a text string, "notext": an object without one,
\* "null": the JSON null, "unparseable": not JSON)
Events ==
    {UserText,
     [message_type |-> "text", sender_type |-> "app", content |-> "text"],
     [message_type |-> "text", sender_type |-> "user", content |-> "notext"],
     [message_type |-> "text", sender_type |-> "user", content |-> "null"],
     [message_type |-> "text", sender_type |-> "user", content |-> "unparseable"],
     [message_type |-> "image", sender_type |-> "user", content |-> "notext"]}

\* the handler passes content.text of the event to the callback
Deliver(event, maxMsgs) ==
    /\ getResult' = NoGet
    /\ messages' = <<>>
    /\ sendResult' = NoSend
    /\ sweptFrom' = <<>>
    /\ UNCHANGED <<timeout_seconds, process, wsClient, discards, cancelled>>
    /\ seen' = Append(seen, event)
    /\ nextMsg <= maxMsgs
    /\ HandleUserMessage(nextMsg)
    /\ nextMsg' = nextMsg + 1
    /\ handed' = Append(handed, 0)
    /\ UNCHANGED <<pendingReplyResolve, replyTimeout, now, pc, timeoutOf, timer,
                   result, returned>>

\* the handler does not call the callback: nothing but its log changes
Drop(event, outcome) ==
    /\ getResult' = NoGet
    /\ messages' = <<>>
    /\ sendResult' = NoSend
    /\ sweptFrom' = <<>>
    /\ discards' = <<[event |-> event, outcome |-> outcome]>>
    /\ UNCHANGED <<coordinatorState, timeout_seconds, process, wsClient, seen, cancelled>>

\* a handler without its try/catch: what JSON.parse or content.text throws
\* reaches the transport
OnEventNoCatch(event, maxMsgs) ==
    IF event.message_type = "text"
    THEN IF event.content \in {"unparseable", "null"}
         THEN Drop(event, "escaped")
         ELSE Deliver(event, maxMsgs)
    ELSE Drop(event, "filtered")

\* the im.message.receive_v1 handler: only text messages are parsed and passed
\* on; what JSON.parse or content.text throws is caught and logged
OnEvent(event, maxMsgs) ==
    IF event.message_type = "text"
    THEN IF event.content \in {"unparseable", "null"}
         THEN Drop(event, "caught")
         ELSE Deliver(event, maxMsgs)
    ELSE Drop(event, "filtered")

\* the inbound adapter delivers the next text the user wrote
Inbound(maxMsgs) == Deliver(UserText, maxMsgs)

\* ------------------------------------------------------------- get_messages
\* a get_messages that returns the queue and does not empty it
GetMessagesNoClear ==
    /\ Idle
    /\ sendResult' = NoSend
    /\ sweptFrom' = <<>>
    /\ UNCHANGED <<timeout_seconds, process, wsClient, seen, discards, cancelled>>
    /\ getResult' = IF Len(messageQueue) = 0 THEN EmptyGetResult ELSE GetResult(messageQueue)
    /\ messages' = messageQueue
    /\ handed' = [m \in 1..Len(handed) |->
                     handed[m] + Cardinality({i \in 1..Len(messageQueue) :
                                                messageQueue[i].text = m})]
    /\ UNCHANGED <<pendingReplyResolve, replyTimeout, messageQueue, now, pc, timeoutOf,
                   promise, timer, microtasks, result, nextMsg, fate, settled, returned>>

\* a get_messages that also empties the pending slot and stops the timer
GetMessagesClearsSlot ==
    /\ Idle
    /\ sendResult' = NoSend
    /\ sweptFrom' = <<>>
    /\ UNCHANGED <<timeout_seconds, process, wsClient, seen, discards, cancelled>>
    /\ IF Len(messageQueue) = 0
       THEN /\ getResult' = EmptyGetResult
            /\ messages' = <<>>
            /\ UNCHANGED <<messageQueue, handed>>
       ELSE /\ messages' = messageQueue
            /\ getResult' = GetResult(messages')
            /\ messageQueue' = <<>>
            /\ handed' = [m \in 1..Len(handed) |->
                             handed[m] + Cardinality({i \in 1..Len(messageQueue) :
                                                        messageQueue[i].text = m})]
    /\ pendingReplyResolve' = 0
    /\ replyTimeout' = 0
    /\ timer' = [c \in Calls |->
                    IF timer[c].state = "armed" THEN [timer[c] EXCEPT !.state = "cleared"]
                    ELSE timer[c]]
    /\ UNCHANGED <<now, pc, timeoutOf, promise, microtasks, result, nextMsg, fate,
                   settled, returned>>

GetMessages ==
    /\ Idle
    /\ sendResult' = NoSend
    /\ sweptFrom' = <<>>
    /\ UNCHANGED <<timeout_seconds, process, wsClient, seen, discards, cancelled>>
    /\ IF Len(messageQueue) = 0
       THEN /\ getResult' = EmptyGetResult
            /\ messages' = <<>>
            /\ UNCHANGED <<messageQueue, handed>>
       ELSE /\ messages' = messageQueue
            /\ getResult' = GetResult(messages')
            /\ messageQueue' = <<>>
            /\ handed' = [m \in 1..Len(handed) |->
                             handed[m] + Cardinality({i \in 1..Len(messageQueue) :
                                                        messageQueue[i].text = m})]
    /\ UNCHANGED <<pendingReplyResolve, replyTimeout, now, pc, timeoutOf, promise,
                   timer, microtasks, result, nextMsg, fate, settled, returned>>

\* ------------------------------------------------------ cleanupOldMessages
OneHour == 60 * 60 * 1000
TooOld(entry) == entry.timestamp < now - OneHour

\* q.splice(i, 1)
Splice(q, i) == SubSeq(q, 1, i - 1) \o SubSeq(q, i + 1, Len(q))

\* a loop that runs forward and moves on after a splice
RECURSIVE SweepForward(_, _, _)
SweepForward(q, i, oneHourAgo) ==
    IF i > Len(q) THEN q
    ELSE SweepForward(IF q[i].timestamp < oneHourAgo THEN Splice(q, i) ELSE q,
                      i + 1, oneHourAgo)

\* a sweep with the forward loop
SweepQueueForward(q, t) == SweepForward(q, 1, t - OneHour)

\* for (i = length - 1; i >= 0; i--) if (q[i].timestamp < oneHourAgo) splice(i, 1)
\* (positions are counted from 1 here)
RECURSIVE SweepLoop(_, _, _)
SweepLoop(q, i, oneHourAgo) ==
    IF i < 1 THEN q
    ELSE SweepLoop(IF q[i].timestamp < oneHourAgo THEN Splice(q, i) ELSE q,
                   i - 1, oneHourAgo)

\* the queue cleanupOldMessages leaves when it runs on queue q at time t
SweepQueue(q, t) == SweepLoop(q, Len(q), t - OneHour)

\* cleanupOldMessages()
cleanupOldMessages ==
    /\ Idle
    /\ messageQueue' = SweepQueue(messageQueue, now)
    /\ sweptFrom' = <<messageQueue>>
    /\ getResult' = NoGet
    /\ messages' = <<>>
    /\ sendResult' = NoSend
    /\ UNCHANGED <<pendingReplyResolve, replyTimeout, now, pc, timeoutOf, promise, timer,
                   microtasks, result, nextMsg, fate, settled, returned, handed,
                   timeout_seconds, process, wsClient, seen, discards, cancelled>>

\* ------------------------------------------------------------------- clock
Armed == {c \in Calls : timer[c].state = "armed"}

\* one second passes; time does not pass the deadline of an armed timer
Tick(maxTime) ==
    /\ getResult' = NoGet
    /\ messages' = <<>>
    /\ sendResult' = NoSend
    /\ sweptFrom' = <<>>
    /\ UNCHANGED <<timeout_seconds, process, wsClient, discards, cancelled, seen>>
    /\ Idle
    /\ now + 1000 <= maxTime * 1000
    /\ \A c \in Armed : now + 1000 <= timer[c].deadline
    /\ now' = now + 1000
    /\ UNCHANGED <<pendingReplyResolve, replyTimeout, messageQueue, pc, timeoutOf,
                   promise, timer, microtasks, result, nextMsg, fate,
                   settled, returned, handed>>

\* time passes up to the earliest deadline of an armed timer
TickToDeadline ==
    /\ getResult' = NoGet
    /\ messages' = <<>>
    /\ sendResult' = NoSend
    /\ sweptFrom' = <<>>
    /\ UNCHANGED <<timeout_seconds, process, wsClient, discards, cancelled, seen>>
    /\ Idle
    /\ \E c \in Armed :
          /\ timer[c].deadline > now
          /\ \A d \in Armed : timer[c].deadline <= timer[d].deadline
          /\ now' = timer[c].deadline
    /\ UNCHANGED <<pendingReplyResolve, replyTimeout, messageQueue, pc, timeoutOf,
                   promise, timer, microtasks, result, nextMsg, fate,
                   settled, returned, handed>>

\* ------------------------------------------------------------ cancellation
\* the caller cancels a call that waits: the handler of ask_user takes no
\* abort signal, so it goes on waiting and nothing of the coordinator changes
Cancel(c) ==
    /\ Idle
    /\ pc[c] = "waiting"
    /\ ~cancelled[c]
    /\ cancelled' = [cancelled EXCEPT ![c] = TRUE]
    /\ getResult' = NoGet
    /\ messages' = <<>>
    /\ sendResult' = NoSend
    /\ sweptFrom' = <<>>
    /\ UNCHANGED <<coordinatorState, timeout_seconds, process, wsClient, seen, discards>>

\* ------------------------------------------------------ startup and exit
\* what the startup, the signals and the send tools leave alone
coordinator == <<pendingReplyResolve, replyTimeout, messageQueue, now, pc, timeoutOf,
                 promise, timer, microtasks, result, nextMsg, fate, settled,
                 returned, handed, timeout_seconds, seen, discards, cancelled>>

\* the check of the three environment variables: process.exit(1) if one is missing
ConfigCheck(complete) ==
    /\ process = Loading
    /\ process' = IF complete THEN Starting ELSE Exited(1, "config")
    /\ getResult' = NoGet
    /\ messages' = <<>>
    /\ sendResult' = NoSend
    /\ sweptFrom' = <<>>
    /\ UNCHANGED <<coordinator, wsClient>>

\* a startListening that lets the failure of the transport escape to main
StartListeningThrows(started) ==
    /\ process = Starting
    /\ wsClient' = IF started THEN "started" ELSE "null"
    /\ process' = IF started THEN Connecting ELSE Exited(1, "main")
    /\ getResult' = NoGet
    /\ messages' = <<>>
    /\ sendResult' = NoSend
    /\ sweptFrom' = <<>>
    /\ UNCHANGED coordinator

\* main awaits provider.startListening: the WSClient starts, or creating or
\* starting it throws and the catch block leaves wsClient null
StartListening(started) ==
    /\ process = Starting
    /\ wsClient' = IF started THEN "started" ELSE "null"
    /\ process' = Connecting
    /\ getResult' = NoGet
    /\ messages' = <<>>
    /\ sendResult' = NoSend
    /\ sweptFrom' = <<>>
    /\ UNCHANGED coordinator

\* main awaits server.connect: a rejection reaches main().catch, process.exit(1)
ServerConnect(connected) ==
    /\ process = Connecting
    /\ process' = IF connected THEN Running ELSE Exited(1, "main")
    /\ getResult' = NoGet
    /\ messages' = <<>>
    /\ sendResult' = NoSend
    /\ sweptFrom' = <<>>
    /\ UNCHANGED <<coordinator, wsClient>>

\* SIGINT or SIGTERM: stopListening, process.exit(0)
Signal ==
    /\ process = Running
    /\ wsClient' = "null"
    /\ process' = Exited(0, "signal")
    /\ getResult' = NoGet
    /\ messages' = <<>>
    /\ sendResult' = NoSend
    /\ sweptFrom' = <<>>
    /\ UNCHANGED coordinator

\* send_message and send_rich_message: the provider sends, or it throws and
\* the catch block returns an error result
SendTool(tool, sent) ==
    /\ Idle
    /\ sendResult' = IF sent THEN SentResult(tool) ELSE SendFailedResult(tool)
    /\ sweptFrom' = <<>>
    /\ getResult' = NoGet
    /\ messages' = <<>>
    /\ UNCHANGED <<coordinator, process, wsClient>>

\* ---------------------------------------------------------- specifications
Next ==
    \/ \E c \in 1..MaxCalls, arg \in TimeoutInputs : AskUser(c, arg)
    \/ \E c \in 1..MaxCalls : SendOk(c)
    \/ \E c \in 1..MaxCalls : SendFail(c)
    \/ \E c \in 1..MaxCalls : TimerFire(c)
    \/ \E c \in 1..MaxCalls : Resume(c)
    \/ Inbound(MaxMsgs)
    \/ GetMessages
    \/ Tick(MaxTime)
    \/ TickToDeadline

Spec == Init /\ [][Next]_vars

\* runs that fill the queue beyond its capacity: one ask_user call, one inbound
\* text per turn, and the clock stands still
QueueCalls == {1}

NextQueue ==
    \/ \E c \in QueueCalls, arg \in TimeoutInputs : AskUser(c, arg)
    \/ \E c \in QueueCalls : SendOk(c)
    \/ \E c \in QueueCalls : SendFail(c)
    \/ \E c \in QueueCalls : Resume(c)
    \/ Idle /\ Inbound(QMaxMsgs)
    \/ GetMessages

SpecQueue == Init /\ [][NextQueue]_vars

\* runs that last longer than an hour: no ask_user call, one inbound text per
\* turn, and the clock advances by minutes
TickMinutes(minutes, maxMinutes) ==
    /\ getResult' = NoGet
    /\ messages' = <<>>
    /\ sendResult' = NoSend
    /\ sweptFrom' = <<>>
    /\ UNCHANGED <<timeout_seconds, process, wsClient, discards, cancelled, seen>>
    /\ Idle
    /\ Armed = {}
    /\ now + minutes * 60 * 1000 <= maxMinutes * 60 * 1000
    /\ now' = now + minutes * 60 * 1000
    /\ UNCHANGED <<pendingReplyResolve, replyTimeout, messageQueue, pc, timeoutOf,
                   promise, timer, microtasks, result, nextMsg, fate,
                   settled, returned, handed>>

NextTTL ==
    \/ Idle /\ Inbound(TMaxMsgs)
    \/ GetMessages
    \/ \E minutes \in {59, 61} : TickMinutes(minutes, TMaxMinutes)

SpecTTL == Init /\ [][NextTTL]_vars

\* runs in which cleanupOldMessages is called, with entries younger than, exactly
\* and older than one hour
NextSweep ==
    \/ Idle /\ Inbound(TMaxMsgs)
    \/ GetMessages
    \/ cleanupOldMessages
    \/ \E minutes \in {60, 61} : TickMinutes(minutes, SMaxMinutes)

SpecSweep == Init /\ [][NextSweep]_vars

\* runs of one ask_user call with every timeout_seconds of AllTimeoutInputs
NextTimeout ==
    \/ \E c \in QueueCalls, arg \in AllTimeoutInputs : AskUser(c, arg)
    \/ \E c \in QueueCalls : SendOk(c)
    \/ \E c \in QueueCalls : SendFail(c)
    \/ \E c \in QueueCalls : TimerFire(c)
    \/ \E c \in QueueCalls : Resume(c)
    \/ TickToDeadline

SpecTimeout == Init /\ [][NextTimeout]_vars

\* runs in which the caller may cancel a waiting call
NextCancel ==
    \/ \E c \in 1..MaxCalls, arg \in TimeoutInputs : AskUser(c, arg)
    \/ \E c \in 1..MaxCalls : SendOk(c)
    \/ \E c \in 1..MaxCalls : SendFail(c)
    \/ \E c \in 1..MaxCalls : TimerFire(c)
    \/ \E c \in 1..MaxCalls : Resume(c)
    \/ \E c \in 1..MaxCalls : Cancel(c)
    \/ Inbound(FMaxMsgs)
    \/ GetMessages
    \/ TickToDeadline

SpecCancel == Init /\ [][NextCancel]_vars

\* runs with every kind of inbound event and one ask_user call
NextInbound ==
    \/ \E c \in QueueCalls, arg \in TimeoutInputs : AskUser(c, arg)
    \/ \E c \in QueueCalls : SendOk(c)
    \/ \E c \in QueueCalls : SendFail(c)
    \/ \E c \in QueueCalls : TimerFire(c)
    \/ \E c \in QueueCalls : Resume(c)
    \/ \E event \in Events : OnEvent(event, EMaxMsgs)
    \/ GetMessages
    \/ TickToDeadline

SpecInbound == Init /\ [][NextInbound]_vars

\* runs from the start of the process: the configuration check, main, the
\* tools once the server is connected, inbound texts if the transport started
InitStartup ==
    /\ InitCore
    /\ process = Loading
    /\ wsClient = "null"

Serving == process = Running

NextStartup ==
    \/ \E complete \in BOOLEAN : ConfigCheck(complete)
    \/ \E started \in BOOLEAN : StartListening(started)
    \/ \E connected \in BOOLEAN : ServerConnect(connected)
    \/ Signal
    \/ Serving /\ \E c \in 1..MaxCalls, arg \in TimeoutInputs : AskUser(c, arg)
    \/ Serving /\ \E c \in 1..MaxCalls : SendOk(c)
    \/ Serving /\ \E c \in 1..MaxCalls : SendFail(c)
    \/ Serving /\ \E c \in 1..MaxCalls : TimerFire(c)
    \/ Serving /\ \E c \in 1..MaxCalls : Resume(c)
    \/ Serving /\ wsClient = "started" /\ Inbound(FMaxMsgs)
    \/ Serving /\ GetMessages
    \/ Serving /\ \E tool \in {"send_message", "send_rich_message"}, sent \in BOOLEAN :
                     SendTool(tool, sent)
    \/ Serving /\ TickToDeadline

SpecStartup == InitStartup /\ [][NextStartup]_vars

\* the event loop runs a ready continuation and a due timer callback, and time
\* reaches the deadline of an armed timer
Fairness ==
    /\ \A c \in Calls : WF_vars(Resume(c))
    /\ \A c \in Calls : WF_vars(TimerFire(c))
    /\ WF_vars(TickToDeadline)

\* runs in which time passes only up to the deadlines of armed timers
NextFair ==
    \/ \E c \in 1..MaxCalls, arg \in TimeoutInputs : AskUser(c, arg)
    \/ \E c \in 1..MaxCalls : SendOk(c)
    \/ \E c \in 1..MaxCalls : SendFail(c)
    \/ \E c \in 1..MaxCalls : TimerFire(c)
    \/ \E c \in 1..MaxCalls : Resume(c)
    \/ Inbound(FMaxMsgs)
    \/ GetMessages
    \/ TickToDeadline

FairSpec == Init /\ [][NextFair]_vars /\ Fairness


\* ------------------------------------------------------------------ claims
Registered(c) == promise[c].state # "none"
\* the calls suspended in their wait whose promise nothing has settled yet
Outstanding == {c \in Calls : pc[c] = "waiting" /\ promise[c].state = "pending"}
QueueTexts(q) == {q[i].text : i \in 1..Len(q)}

\* C1: a wait registered while an earlier wait is outstanding is rejected at once
\* with an error result, and the slot, the timers and the promises of the earlier
\* wait are left as they were.
C1_ConflictRejection ==
    [][\A c \in Calls :
          (pc[c] = "sending" /\ pc'[c] # "sending" /\ pendingReplyResolve # 0)
          => /\ pc'[c] = "done"
             /\ result'[c].isError
             /\ pendingReplyResolve' = pendingReplyResolve
             /\ replyTimeout' = replyTimeout
             /\ timer' = timer
             /\ promise' = promise]_vars

\* C2: every registered wait is settled by at most one resolve/reject call, a fired
\* timer leaves its wait settled, ask_user returns at most once, and what it
\* returns is the outcome of the one call that settled the wait: the reply text
\* of the winning inbound text, or the timeout error of the timer.
C2_AtMostOneWinner ==
    \A c \in Calls :
        /\ Len(settled[c]) <= 1
        /\ returned[c] <= 1
        /\ timer[c].state = "fired" => Len(settled[c]) = 1
        /\ promise[c].state = "fulfilled"
              => settled[c] = <<[by |-> "route", text |-> promise[c].value]>>
        /\ promise[c].state = "rejected" => settled[c] = <<[by |-> "timer", text |-> 0]>>
        /\ (pc[c] = "done" /\ Registered(c))
              => /\ returned[c] = 1
                 /\ Len(settled[c]) = 1
                 /\ result[c] = IF settled[c][1].by = "route"
                                THEN ReplyResult(settled[c][1].text)
                                ELSE ErrorResult(TimeoutError)

\* one wait was won by an inbound text while a later text lost, another by its timer
C2_Witness ==
    \E c, d \in Calls :
        /\ pc[c] = "done" /\ promise[c].state = "fulfilled"
        /\ \E m \in 1..Len(fate) : fate[m] = [kind |-> "dropped", to |-> c]
        /\ pc[d] = "done" /\ promise[d].state = "rejected"

\* C3: every call suspended in an unresolved wait has its resolver in the slot.
C3_UniqueRoutingTarget ==
    \A c \in Calls : c \in Outstanding => pendingReplyResolve = c

\* C4: every inbound text is either the reply of one wait or in the queue's
\* history: none is passed to a resolver that no longer delivers it, and no wait
\* gets two texts.
C4_HandOffWithoutLoss ==
    /\ \A m \in 1..Len(fate) : fate[m].kind \in {"reply", "queued"}
    /\ \A m, n \in 1..Len(fate) :
          (m # n /\ fate[m].kind = "reply" /\ fate[n].kind = "reply")
          => fate[m].to # fate[n].to

\* C5: no inbound text is carried by two tool results, no two waits are fulfilled
\* with the same text, a text that fulfilled a wait is not in the queue, and the
\* queue holds no text twice.
C5_NoDuplication ==
    /\ \A m \in 1..Len(handed) : handed[m] <= 1
    /\ \A c, d \in Calls :
          (c # d /\ promise[c].state = "fulfilled" /\ promise[d].state = "fulfilled")
          => promise[c].value # promise[d].value
    /\ \A c \in Calls :
          promise[c].state = "fulfilled" => promise[c].value \notin QueueTexts(messageQueue)
    /\ \A i, j \in 1..Len(messageQueue) :
          i # j => messageQueue[i].text # messageQueue[j].text
    /\ \A m \in 1..Len(handed) :
          m \in QueueTexts(messageQueue) => handed[m] = 0

\* one text was returned as a reply, another by get_messages, and a further
\* get_messages found the queue empty
C5_Witness ==
    /\ \E c \in Calls : pc[c] = "done" /\ result[c] = ReplyResult(1)
    /\ Len(handed) = 2 /\ handed[1] = 1 /\ handed[2] = 1
    /\ fate[2].kind = "queued"
    /\ getResult = EmptyGetResult


\* the step is the delivery of the next inbound text
InboundStep == nextMsg' = nextMsg + 1
\* q2 is q with entry e appended at the tail (the head evicted at capacity)
Appended(q, q2, e) ==
    IF Len(q) < MAX_QUEUE_SIZE THEN q2 = Append(q, e) ELSE q2 = Append(Tail(q), e)
Expired == {c \in Calls : promise[c].state = "rejected"}

\* C6: when exactly one wait is outstanding and the next inbound text arrives
\* before its deadline, the text fulfils that wait and the queue is unchanged;
\* the call then returns that text and its timer is disarmed.
C6_Fulfilment ==
    [][\A c \in Calls :
          /\ (Outstanding = {c} /\ now < timer[c].deadline /\ InboundStep)
             => /\ promise'[c] = [state |-> "fulfilled", value |-> nextMsg]
                /\ messageQueue' = messageQueue
          /\ (promise[c].state = "fulfilled" /\ pc[c] = "waiting" /\ pc'[c] = "done")
             => /\ result'[c] = ReplyResult(promise[c].value)
                /\ timer'[c].state = "cleared"]_vars

\* C7: a wait that no inbound text fulfils keeps its timer armed until the
\* deadline; the timer fires at the deadline and rejects the wait, and ask_user
\* returns the timeout error.  An inbound text never changes the outcome of an
\* expired wait, and a text that arrives once every registered wait has ended,
\* one of them by its timer, is appended to the queue.
C7_Timeout ==
    /\ [](\A c \in Calls :
             /\ c \in Outstanding => (timer[c].state = "armed" /\ now <= timer[c].deadline)
             /\ (promise[c].state = "rejected" /\ pc[c] = "done")
                   => result[c] = ErrorResult(TimeoutError)
             /\ (promise[c].state = "rejected" /\ pc[c] # "done")
                   => \E i \in 1..Len(microtasks) : microtasks[i] = c)
    /\ [][/\ \A c \in Calls :
                (timer[c].state = "armed" /\ timer'[c].state = "fired")
                => /\ now = timer[c].deadline
                   /\ promise[c].state = "pending" => promise'[c].state = "rejected"
          /\ InboundStep
                => /\ \A c \in Expired : promise'[c] = promise[c] /\ result'[c] = result[c]
                   /\ (Expired # {} /\ \A c \in Calls :
                                          Registered(c) => (c \in Expired \/ pc[c] = "done"))
                         => Appended(messageQueue, messageQueue',
                                     [text |-> nextMsg, timestamp |-> now])]_vars

\* the only call timed out at its deadline and the only text, received after
\* that, is in the queue
C7_Witness ==
    /\ pc[1] = "done" /\ result[1] = ErrorResult(TimeoutError)
    /\ \A c \in Calls : c # 1 => pc[c] = "idle"
    /\ Len(fate) = 1 /\ fate[1].kind = "queued"
    /\ Len(messageQueue) = 1
    /\ messageQueue[1].text = 1 /\ messageQueue[1].timestamp >= timer[1].deadline

\* the text arrives when the slot is empty because a timer expired a wait, and
\* no wait is outstanding
LateReply == InboundStep /\ pendingReplyResolve = 0 /\ Expired # {} /\ Outstanding = {}

\* C8 as stated: a text that arrives after the timer expired its wait is
\* discarded and leaves the queue as it was.
C8_LateReplyDiscard == [][LateReply => messageQueue' = messageQueue]_vars

\* C8 as amended: a text that arrives after the timer expired its wait is not
\* delivered to any wait and is appended to the queue.
C8_LateReplyQueued ==
    [][LateReply
       => /\ promise' = promise
          /\ Appended(messageQueue, messageQueue', [text |-> nextMsg, timestamp |-> now])
      ]_vars

\* a call timed out and two texts received after that are both in the queue
C8_Witness ==
    /\ \E c \in Calls : pc[c] = "done" /\ result[c] = ErrorResult(TimeoutError)
                        /\ Len(messageQueue) = 2
                        /\ messageQueue[1].timestamp >= timer[c].deadline
    /\ \A c \in Calls : pc[c] \in {"idle", "done"} /\ promise[c].state # "fulfilled"
    /\ Len(fate) = 2 /\ fate[1].kind = "queued" /\ fate[2].kind = "queued"

\* C9: a text that arrives while no ask_user call is suspended in a wait is
\* appended at the tail of the queue with the time of its receipt.
C9_QueueOnIdle ==
    [][(InboundStep /\ \A c \in Calls : pc[c] # "waiting")
       => /\ Appended(messageQueue, messageQueue', [text |-> nextMsg, timestamp |-> now])
          /\ messageQueue'[Len(messageQueue')] = [text |-> nextMsg, timestamp |-> now]
      ]_vars

\* with no ask_user call ever made, two texts received at different times are in
\* the queue in arrival order, each with its time of receipt
C9_Witness ==
    /\ \A c \in Calls : pc[c] = "idle"
    /\ messageQueue = <<[text |-> 1, timestamp |-> 0], [text |-> 2, timestamp |-> 1000]>>

\* C10: the queue never holds more than MAX_QUEUE_SIZE entries.
C10_QueueBound == Len(messageQueue) <= MAX_QUEUE_SIZE

\* the queue is full after more texts were queued than it holds, while an
\* ask_user call took one text as its reply
C10_Witness ==
    /\ Len(messageQueue) = MAX_QUEUE_SIZE
    /\ messageQueue[1].text > 1
    /\ Cardinality({m \in 1..Len(fate) : fate[m].kind = "queued"}) > MAX_QUEUE_SIZE
    /\ pc[1] = "done" /\ promise[1].state = "fulfilled"

\* the inbound texts that handleUserMessage queued, and whether get_messages
\* has taken any of them
Queued == {m \in 1..Len(fate) : fate[m].kind = "queued"}
Drained == {m \in Queued : handed[m] > 0}

\* C11: the queue holds the most recently queued texts in arrival order: a
\* queued text is in the queue exactly if fewer than Len(messageQueue) texts
\* were queued after it, and as long as get_messages has taken nothing the
\* queue holds the last min(n, MAX_QUEUE_SIZE) of the n texts queued.
C11_DropOldest ==
    /\ \A i, j \in 1..Len(messageQueue) :
          i < j => messageQueue[i].text < messageQueue[j].text
    /\ \A m \in Queued :
          m \in QueueTexts(messageQueue)
             <=> Cardinality({k \in Queued : k >= m}) <= Len(messageQueue)
    /\ QueueTexts(messageQueue) \subseteq Queued
    /\ Drained = {} => Len(messageQueue) = Min(Cardinality(Queued), MAX_QUEUE_SIZE)

\* 52 texts were queued with no drain: the queue holds texts 3 to 52
C11_Witness ==
    /\ Cardinality(Queued) = MAX_QUEUE_SIZE + 2
    /\ Drained = {}
    /\ messageQueue[1].text = 3
    /\ messageQueue[MAX_QUEUE_SIZE].text = MAX_QUEUE_SIZE + 2

\* the age limit of cleanupOldMessages: entries received before now - OneHour
GetStep == getResult' # NoGet

\* C12: get_messages never returns an entry that was received more than one
\* hour before the call.
C12_TTL ==
    [][GetStep => \A i \in 1..Len(messages') : ~(messages'[i].timestamp < now' - OneHour)]_vars

\* the entries of a sequence that satisfy a test, in order, as texts
RECURSIVE FreshTexts(_)
FreshTexts(q) ==
    IF q = <<>> THEN <<>>
    ELSE (IF TooOld(Head(q)) THEN <<>> ELSE <<Head(q).text>>) \o FreshTexts(Tail(q))

\* the lines of a result that carry one of the given texts, in order
RECURSIVE Restrict(_, _)
Restrict(lines, texts) ==
    IF lines = <<>> THEN <<>>
    ELSE (IF Head(lines) \in texts THEN <<Head(lines)>> ELSE <<>>)
         \o Restrict(Tail(lines), texts)

\* C13: get_messages returns every entry of the queue that is not older than
\* one hour, in arrival order: the result's lines that carry such entries are
\* exactly those entries in queue order.
C13_DrainContentOrder ==
    [][GetStep =>
          LET fresh == FreshTexts(messageQueue)
          IN  Restrict(getResult'.lines, {fresh[i] : i \in 1..Len(fresh)}) = fresh]_vars

\* a drain returned two texts in arrival order, the first of them queued 59
\* minutes before the drain
C13_Witness ==
    /\ getResult.lines = <<1, 2>>
    /\ messages[1].timestamp = now - 59 * 60 * 1000
    /\ messages[2].timestamp > messages[1].timestamp

\* C14: get_messages leaves the queue empty; the queue stays empty until the
\* next inbound text, so a further get_messages returns the empty result; and
\* every text a drain returns is in the queue and was in no earlier result.
C14_DrainAtomicity ==
    [][/\ GetStep => messageQueue' = <<>>
       /\ (messageQueue = <<>> /\ ~InboundStep) => messageQueue' = <<>>
       /\ (GetStep /\ messageQueue = <<>>) => getResult' = EmptyGetResult
       /\ GetStep => \A i \in 1..Len(getResult'.lines) :
                        /\ getResult'.lines[i] \in QueueTexts(messageQueue)
                        /\ handed[getResult'.lines[i]] = 0]_vars

\* text 1 was drained by an earlier get_messages; text 2 arrived after that
\* drain and is alone in the later one
C14_Witness ==
    /\ getResult.lines = <<2>>
    /\ fate[1].kind = "queued" /\ fate[2].kind = "queued"
    /\ handed = <<1, 1>>

\* C15: get_messages never returns an error result, and with an empty queue
\* it returns the "No pending messages from user." result, whether or not an
\* ask_user call is waiting.
C15_GetAlwaysSucceeds ==
    /\ ~getResult.isError
    /\ (getResult # NoGet /\ messages = <<>>) =>
          getResult.head = "No pending messages from user."
    /\ Idle => ENABLED GetMessages

\* get_messages returned the empty result while an ask_user call is waiting
C15_Witness ==
    /\ getResult.head = "No pending messages from user."
    /\ Outstanding # {}

\* C16: a reply an ask_user call receives is never a text that was queued;
\* registering, fulfilling and timing out a wait leave the queue unchanged:
\* the queue changes only in get_messages and when a text is queued.
C16_NoRetroactiveDelivery ==
    /\ [](\A c \in Calls :
            /\ promise[c].state = "fulfilled" => promise[c].value \notin Queued
            /\ result[c].prefix = "User replied: " => result[c].reply \notin Queued)
    /\ [][/\ (~GetStep /\ ~InboundStep) => messageQueue' = messageQueue
          /\ (InboundStep /\ pendingReplyResolve # 0) => messageQueue' = messageQueue]_vars

\* text 1 was queued, then a call registered its wait, received text 2 as its
\* reply and returned; text 1 is still in the queue
C16_Witness ==
    /\ QueueTexts(messageQueue) = {1}
    /\ pc[1] = "done"
    /\ result[1] = ReplyResult(2)

\* C17: an inbound text that arrives while an ask_user call is suspended and
\* unresolved is delivered to a waiting call and is not appended to the queue.
C17_WaiterPriority ==
    [][(InboundStep /\ Outstanding # {}) =>
          /\ messageQueue' = messageQueue
          /\ \E c \in Outstanding :
                promise'[c] = [state |-> "fulfilled", value |-> nextMsg]]_vars

\* the timer of call c fires
TimerStep(c) == timer[c].state = "armed" /\ timer'[c].state = "fired"

\* C18: the timer of one wait expires only that wait: when it fires it does
\* not clear a slot that holds another wait's resolver and does not settle
\* another wait's promise.
C18_NoStaleTimer ==
    [][\A c \in Calls :
          TimerStep(c) =>
             /\ pendingReplyResolve \notin {0, c} =>
                   pendingReplyResolve' = pendingReplyResolve
             /\ \A d \in Calls \ {c} : promise'[d] = promise[d]]_vars

\* C19: a call that registered a wait is never suspended past its deadline,
\* which is its effective timeout after registration: while it waits either
\* its timer is armed or its continuation is ready; and it returns.
C19_BoundedSuspension ==
    /\ [](\A c \in Calls :
            pc[c] = "waiting" =>
               /\ now <= timer[c].deadline
               /\ \/ promise[c].state = "pending" /\ timer[c].state = "armed"
                  \/ /\ promise[c].state \in {"fulfilled", "rejected"}
                     /\ \E i \in 1..Len(microtasks) : microtasks[i] = c)
    /\ [][\A c \in Calls :
             (pc[c] = "sending" /\ pc'[c] = "waiting") =>
                timer'[c].deadline = now + Max(timeoutOf[c], 1)]_vars
    /\ \A c \in Calls : (pc[c] = "waiting") ~> (pc[c] = "done")

\* both calls registered a wait and returned: one by its timer, one by a reply
C19_Witness ==
    /\ pc[1] = "done" /\ pc[2] = "done"
    /\ \E c \in Calls : result[c] = ErrorResult(TimeoutError) /\ timer[c].state = "fired"
    /\ \E c \in Calls : result[c].prefix = "User replied: "

\* no ask_user call is suspended
Quiescent == \A c \in Calls : pc[c] # "waiting"

\* C20: when no ask_user call is suspended the slot is empty and no timer is
\* armed; a call that registers then holds the slot with its own timer armed,
\* and a text that arrives while it holds the slot becomes its reply.
C20_ReturnToIdle ==
    /\ [](Quiescent => pendingReplyResolve = 0 /\ Armed = {})
    /\ [][\A c \in Calls :
             /\ (Quiescent /\ pc'[c] = "waiting") =>
                   pendingReplyResolve' = c /\ Armed' = {c}
             /\ (InboundStep /\ pendingReplyResolve = c /\ promise[c].state = "pending") =>
                   promise'[c] = [state |-> "fulfilled", value |-> nextMsg]
             /\ (pc[c] = "waiting" /\ pc'[c] = "done" /\ promise[c].state = "fulfilled") =>
                   result'[c] = ReplyResult(promise[c].value)]_vars

\* call 1 timed out; call 2 registered its wait after that, received text 1
\* before its deadline and returned it; nothing is suspended
C20_Witness ==
    /\ Quiescent
    /\ result[1] = ErrorResult(TimeoutError)
    /\ result[2] = ReplyResult(1)
    /\ timer[1].deadline <= timer[2].deadline - Max(timeoutOf[2], 1)
    /\ timer[2].state = "cleared"

\* the step in which call c registers its wait, and the length of the timer
\* it arms in that step
RegisterStep(c) == pc[c] = "sending" /\ pc'[c] = "waiting"
TimerLength(c) == timer'[c].deadline - now

\* C21: the timer ask_user arms is never longer than 300 seconds, and it is
\* exactly 180 seconds when timeout_seconds is not given.
C21_TimeoutUpperBound ==
    [][\A c \in Calls :
          RegisterStep(c) =>
             /\ TimerLength(c) <= 300 * 1000
             /\ ~timeout_seconds[c].given => TimerLength(c) = 180 * 1000]_vars

\* a call asked for more than 300 seconds and waits with a timer of 300 seconds
C21_Witness ==
    /\ timeout_seconds[1].given /\ timeout_seconds[1].ms > 300 * 1000
    /\ pc[1] = "waiting" /\ timer[1].state = "armed"
    /\ timer[1].deadline - now = 300 * 1000

\* C22: the timer ask_user arms is at least 1 second, whatever timeout_seconds
\* is.
C22_TimeoutLowerBound ==
    [][\A c \in Calls : RegisterStep(c) => TimerLength(c) >= 1000]_vars

\* C23: ask_user waits at most 3 minutes: the timer it arms is never longer
\* than 180 seconds.
C23_ThreeMinutes ==
    [][\A c \in Calls : RegisterStep(c) => TimerLength(c) <= 3 * 60 * 1000]_vars

\* the server is connected and the inbound transport is not there
SendOnly == process = Running /\ wsClient = "null"

\* C24: a failure to start the inbound transport does not end startListening
\* or the process: main goes on to connect the server; in send-only mode the
\* send tools are served and succeed when the provider sends, no inbound text
\* arrives, the queue stays empty, and a call that registered its wait gets no
\* reply and returns the timeout error.
C24_SendOnly ==
    /\ [][(process = Starting /\ process' # Starting) => process' = Connecting]_vars
    /\ [](SendOnly =>
            /\ messageQueue = <<>> /\ fate = <<>> /\ nextMsg = 1
            /\ \A c \in Calls :
                  /\ promise[c].state # "fulfilled"
                  /\ (pc[c] = "done" /\ Registered(c)) => result[c] = ErrorResult(TimeoutError)
            /\ Idle => ENABLED SendTool("send_message", TRUE)
            /\ Idle => ENABLED SendTool("send_rich_message", TRUE)
            /\ sendResult.text = "Message sent successfully to user via Feishu."
                  => ~sendResult.isError)

\* in send-only mode an ask_user call has returned the timeout error and a
\* send_message call after it succeeded
C24_Witness ==
    /\ SendOnly
    /\ pc[1] = "done" /\ result[1] = ErrorResult(TimeoutError)
    /\ sendResult = SentResult("send_message")

\* C25: the process exits only by the configuration check, by a failure of
\* main, or by a signal; while it serves, a timeout, a send failure and an
\* overlapping ask_user call each end the call with an error result, and the
\* process keeps running.
C25_ProcessSurvival ==
    /\ [](process.state = "exited" => process.by \in {"config", "main", "signal"})
    /\ [][(process = Running /\ process' # Running) => process' = Exited(0, "signal")]_vars
    /\ [][\A c \in Calls :
             /\ TimerStep(c) => process' = Running
             /\ (pc[c] = "sending" /\ pc'[c] = "done") =>
                   process' = Running /\ result'[c].isError
             /\ (pc[c] = "waiting" /\ pc'[c] = "done" /\ promise[c].state = "rejected") =>
                   process' = Running /\ result'[c].isError
             /\ (pc[c] = "sending" /\ pc'[c] # "sending" /\ Outstanding # {}) =>
                   process' = Running /\ pc'[c] = "done" /\ result'[c].isError]_vars

\* the step in which the adapter handles an event without calling the callback
DropStep == discards' # discards

\* C26: only text events written by the user reach handleUserMessage; an event
\* the adapter does not pass on changes neither the slot nor the queue.
C26_InboundFiltering ==
    /\ [](\A m \in 1..Len(seen) :
            seen[m].message_type = "text" /\ seen[m].sender_type = "user")
    /\ [][DropStep => UNCHANGED <<pendingReplyResolve, messageQueue>>]_vars

\* C27: an event with malformed content is dropped without an error and
\* without a change of the slot or the queue, and every value passed to
\* handleUserMessage is the text string of a well-formed content.
C27_MalformedPayloads ==
    /\ [](\A m \in 1..Len(seen) : seen[m].content = "text")
    /\ [](\A i \in 1..Len(discards) : discards[i].outcome # "escaped")
    /\ [][DropStep => UNCHANGED <<pendingReplyResolve, messageQueue>>]_vars

\* C28: handleUserMessage completes in the step that calls it: every text
\* passed to it has been dealt with when the step ends, it leaves no
\* continuation of its own behind, and nothing thrown while an event is
\* handled reaches the transport.
C28_RouteNonBlocking ==
    /\ Len(fate) = nextMsg - 1
    /\ Len(seen) = Len(fate)
    /\ \A i \in 1..Len(microtasks) : pc[microtasks[i]] = "waiting"
    /\ \A i \in 1..Len(discards) : discards[i].outcome \in {"filtered", "caught"}

\* a text was routed to the waiting call, and after it an event with
\* unparseable content was caught in the handler
C28_Witness ==
    /\ Len(fate) = 1 /\ fate[1].kind = "reply"
    /\ discards # <<>>
    /\ discards[1].event.content = "unparseable" /\ discards[1].outcome = "caught"

\* C29: once the caller has cancelled a call, the slot does not hold the
\* resolver of that call and its timer is not armed.
C29_Cancellation ==
    \A c \in Calls :
       cancelled[c] => pendingReplyResolve # c /\ timer[c].state # "armed"

\* the waits that are suspended and unresolved but whose resolver is not in
\* the slot
Orphans == {c \in Outstanding : pendingReplyResolve # c}

Sending == {c \in Calls : pc[c] = "sending"}

\* the step in which sending the prompt of call c fails
SendFailStep(c) == pc[c] = "sending" /\ pc'[c] = "done"

\* C31 as stated: ask_user stores a resolver and arms a timer only after the
\* prompt was sent; a failed send returns an error result and leaves the slot,
\* the timer and the queue unchanged; and an inbound text that arrives while a
\* prompt is being sent is appended to the queue.
C31_QueuedWhileSending ==
    /\ [](\A c \in Calls :
            pc[c] \in {"idle", "sending"} =>
               /\ promise[c] = NoPromise /\ timer[c] = NoTimer
               /\ pendingReplyResolve # c /\ replyTimeout # c)
    /\ [][/\ \A c \in Calls :
               SendFailStep(c) =>
                  /\ result'[c] = ErrorResult(SendError)
                  /\ UNCHANGED <<pendingReplyResolve, replyTimeout, timer, promise,
                                 messageQueue>>
          /\ (InboundStep /\ Sending # {}) =>
                Appended(messageQueue, messageQueue',
                         [text |-> nextMsg, timestamp |-> now])]_vars

\* C31 (amended): ask_user stores a resolver and arms a timer only after the
\* prompt was sent; a failed send returns an error result and leaves the slot,
\* the timer and the queue unchanged; an inbound text that arrives while the
\* prompt of a call is being sent never reaches that call: it is appended to
\* the queue when the slot is empty and handed to the resolver in the slot,
\* which is another call's, otherwise.
C31_SendBeforeWait ==
    /\ [](\A c \in Calls :
            pc[c] \in {"idle", "sending"} =>
               /\ promise[c] = NoPromise /\ timer[c] = NoTimer
               /\ pendingReplyResolve # c /\ replyTimeout # c)
    /\ [][/\ \A c \in Calls :
               SendFailStep(c) =>
                  /\ result'[c] = ErrorResult(SendError)
                  /\ UNCHANGED <<pendingReplyResolve, replyTimeout, timer, promise,
                                 messageQueue>>
          /\ \A c \in Sending :
               InboundStep =>
                  /\ promise'[c] = NoPromise /\ result'[c] = result[c]
                  /\ pc'[c] = "sending"
                  /\ IF pendingReplyResolve = 0
                     THEN Appended(messageQueue, messageQueue',
                                   [text |-> nextMsg, timestamp |-> now])
                     ELSE /\ messageQueue' = messageQueue
                          /\ pendingReplyResolve # c
                          /\ fate'[nextMsg].to = pendingReplyResolve]_vars

\* text 1 arrived while the prompt of call 1 was being sent and was queued;
\* then the send failed: the call returned the send error, the slot is empty,
\* no timer was armed and the queue still holds the text
C31_Witness ==
    /\ pc[1] = "done"
    /\ result[1] = ErrorResult(SendError)
    /\ promise[1] = NoPromise /\ timer[1] = NoTimer
    /\ pendingReplyResolve = 0 /\ replyTimeout = 0
    /\ QueueTexts(messageQueue) = {1}

\* C32: whenever the pending slot holds the resolver of a wait that is not yet
\* resolved, the timer armed with that resolver is the one in replyTimeout and
\* is still armed, before its deadline; so the slot does not stay occupied
\* forever: an occupied slot is emptied again.
C32_LiveTimer ==
    /\ [](\A c \in Calls :
            (pendingReplyResolve = c /\ promise[c].state = "pending") =>
               /\ replyTimeout = c
               /\ timer[c].state = "armed"
               /\ now <= timer[c].deadline)
    /\ \A c \in Calls : (pendingReplyResolve = c) ~> (pendingReplyResolve = 0)

\* the wait of call 2 overwrote the one of call 1 and is unresolved in the
\* slot, with its timer armed
C32_Witness ==
    /\ pendingReplyResolve = 2 /\ replyTimeout = 2
    /\ promise[2].state = "pending"
    /\ timer[2].state = "armed"
    /\ 1 \in Outstanding

\* C33: get_messages, with an empty or a non-empty queue, leaves the pending
\* slot, the timers and the waits as they are: a wait outstanding when
\* get_messages returns still has its timer armed, before its deadline, and a
\* text that arrives next fulfils the wait whose resolver is in the slot.
C33_GetFrame ==
    /\ [][GetStep => UNCHANGED <<pendingReplyResolve, replyTimeout, timer, promise,
                                 pc, timeoutOf, result>>]_vars
    /\ [](getResult # NoGet =>
            \A c \in Outstanding :
               timer[c].state = "armed" /\ now <= timer[c].deadline)
    /\ [][(InboundStep /\ getResult # NoGet /\ pendingReplyResolve \in Outstanding) =>
             /\ promise'[pendingReplyResolve] = [state |-> "fulfilled", value |-> nextMsg]
             /\ messageQueue' = messageQueue]_vars

\* text 1 was queued before call 1 registered its wait; get_messages has just
\* returned it and the wait of call 1 is still in the slot with its timer armed
C33_Witness ==
    /\ getResult.lines = <<1>>
    /\ messageQueue = <<>>
    /\ pendingReplyResolve = 1 /\ replyTimeout = 1
    /\ 1 \in Outstanding
    /\ timer[1].state = "armed"

\* C34: cleanupOldMessages leaves exactly the entries of the queue that were
\* not received more than one hour before the current time, in the order they
\* had.
C34_SweepExpired ==
    sweptFrom # <<>> =>
       messageQueue = SelectSeq(sweptFrom[1], LAMBDA e : ~(now - e.timestamp > OneHour))

\* cleanupOldMessages ran 121 minutes after the first text, exactly one hour
\* after the second and right after the third: it removed the first only
C34_Witness ==
    /\ sweptFrom # <<>>
    /\ Len(sweptFrom[1]) = 3
    /\ sweptFrom[1][1].timestamp = now - 121 * 60 * 1000
    /\ sweptFrom[1][2].timestamp = now - OneHour
    /\ sweptFrom[1][3].timestamp = now
    /\ Len(messageQueue) = 2 /\ messageQueue[1].text = 2 /\ messageQueue[2].text = 3

=============================================================================
